---------------------------- MODULE Spec2Model ----------------------------
(***************************************************************************)
(* Shunting slot viewer: interval merge, busy/free window calculation,     *)
(* first-fit slot search and the reserve handler, as implemented in        *)
(* src/app.py and src/shunting_slot_model.py.                              *)
(*                                                                         *)
(* Instants are integers (one unit = one minute); durations are counted    *)
(* in the same unit, so (e - s).total_seconds() >= required_minutes * 60   *)
(* reads e - s >= required_minutes.  An interval is a pair <<start, end>>. *)
(***************************************************************************)
EXTENDS Integers, Sequences, FiniteSets

VARIABLES
    rows,       \* the record store: app.py `rows` / the DataFrame `df`
    intervals,  \* a caller-owned list of intervals handed to a direct call
    before,     \* history: `intervals` as it was when the call was made
    op,         \* the operation that has run ("none" before any call)
    args,       \* its scalar arguments [track, ws, we, d]
    out,        \* the list merge_intervals returned
    busy,       \* returned busy intervals
    free,       \* returned free intervals
    slot,       \* returned slot, or None
    result,     \* the dictionary compute_slots_for_all_tracks returned
    outcome,    \* "none" | "returned" | "rejected"
    sess,       \* per caller: position in the Compute Slots / Reserve Slot handler
    late        \* history: indices of rows appended after another append to the
                \* same track intervened between slot computation and append

vars == <<rows, intervals, before, op, args, out, busy, free, slot, result, outcome, sess, late>>

---------------------------------------------------------------------------
(* Bounds of the model *)

MaxT == 3       \* instants range over 0..MaxT
MaxLen == 3     \* longest interval list handed to a direct call
MaxRows == 2    \* most records in the store for a query
MaxD == 2       \* longest duration asked of the slot finder
MaxResv == 2    \* most reservations appended

Instants == 0..MaxT
Tracks == {"A", "B"}
Callers == {"u1", "u2"}

None == <<>>    \* Python's None as a returned slot

BSeq(S, n) == UNION {[1..k -> S] : k \in 0..n}

Intervals == {<<s, e>> : s \in Instants, e \in Instants}
ValidIntervals == {iv \in Intervals : iv[1] <= iv[2]}

Max(a, b) == IF a >= b THEN a ELSE b
Min(a, b) == IF a <= b THEN a ELSE b

---------------------------------------------------------------------------
(* Interval merge *)

\* list.sort(key=lambda x: x[0]) / sorted(..., key=...): a stable sort by start.
RECURSIVE InsertByStart(_, _)
InsertByStart(sorted, x) ==
    IF sorted = <<>> THEN <<x>>
    ELSE IF sorted[Len(sorted)][1] <= x[1] THEN Append(sorted, x)
    ELSE Append(InsertByStart(SubSeq(sorted, 1, Len(sorted) - 1), x),
                sorted[Len(sorted)])

RECURSIVE SortByStart(_)
SortByStart(s) ==
    IF s = <<>> THEN <<>>
    ELSE InsertByStart(SortByStart(SubSeq(s, 1, Len(s) - 1)), s[Len(s)])

\* MergeSweep with the overlap test written s < last_e: touching intervals stay apart.
RECURSIVE MergeSweepStrict(_, _)
MergeSweepStrict(merged, rest) ==
    IF rest = <<>> THEN merged
    ELSE LET s == rest[1][1]
             e == rest[1][2]
             last_s == merged[Len(merged)][1]
             last_e == merged[Len(merged)][2]
         IN  IF s < last_e
             THEN MergeSweepStrict([merged EXCEPT ![Len(merged)] = <<last_s, Max(last_e, e)>>],
                                   Tail(rest))
             ELSE MergeSweepStrict(Append(merged, <<s, e>>), Tail(rest))

\* The sweep of merge_intervals: `merged` is the list built so far, `rest`
\* the sorted intervals still to visit.
RECURSIVE MergeSweep(_, _)
MergeSweep(merged, rest) ==
    IF rest = <<>> THEN merged
    ELSE LET s == rest[1][1]
             e == rest[1][2]
             last_s == merged[Len(merged)][1]
             last_e == merged[Len(merged)][2]
         IN  IF s <= last_e
             THEN MergeSweep([merged EXCEPT ![Len(merged)] = <<last_s, Max(last_e, e)>>],
                             Tail(rest))
             ELSE MergeSweep(Append(merged, <<s, e>>), Tail(rest))

\* A merge whose sweep compares each interval with the end of the interval
\* visited just before it instead of the end of the running merged span.
RECURSIVE MergeSweepPrev(_, _, _)
MergeSweepPrev(merged, rest, prev_e) ==
    IF rest = <<>> THEN merged
    ELSE LET s == rest[1][1]
             e == rest[1][2]
             last_s == merged[Len(merged)][1]
             last_e == merged[Len(merged)][2]
         IN  IF s <= prev_e
             THEN MergeSweepPrev([merged EXCEPT ![Len(merged)] = <<last_s, Max(last_e, e)>>],
                                 Tail(rest), e)
             ELSE MergeSweepPrev(Append(merged, <<s, e>>), Tail(rest), e)

MergeResultPrev(xs) ==
    IF xs = <<>> THEN <<>>
    ELSE LET sorted == SortByStart(xs)
         IN  MergeSweepPrev(<<sorted[1]>>, Tail(sorted), sorted[1][2])

\* The value both merge_intervals implementations return.
MergeResult(xs) ==
    IF xs = <<>> THEN <<>>
    ELSE LET sorted == SortByStart(xs)
         IN  MergeSweep(<<sorted[1]>>, Tail(sorted))

\* shunting_slot_model.py: sorts a copy; [ret: returned list, arg: the
\* caller's list after the call].
merge_intervals(xs) == [ret |-> MergeResult(xs), arg |-> xs]

\* app.py: intervals.sort(...) sorts the caller's list in place.
app_merge_intervals(xs) == [ret |-> MergeResult(xs), arg |-> SortByStart(xs)]

---------------------------------------------------------------------------
(* Busy/free window calculation *)

\* Rows as parse_csv_text builds them; it does not compare Arrival with Departure.
RawRecords == [TrainID : {<<"T", 1>>}, Track : Tracks, Arrival : Instants, Departure : Instants]
\* Rows that respect the data model, arrival before departure.
Records == {r \in RawRecords : r.Arrival < r.Departure}

\* ClippedSpans with the keep test written s <= e.
RECURSIVE ClippedSpansLoose(_, _, _, _)
ClippedSpansLoose(rs, track, window_start, window_end) ==
    IF rs = <<>> THEN <<>>
    ELSE LET r == rs[1]
             s == Max(r.Arrival, window_start)
             e == Min(r.Departure, window_end)
             rest == ClippedSpansLoose(Tail(rs), track, window_start, window_end)
         IN  IF r.Track # track THEN rest
             ELSE IF s <= e THEN <<<<s, e>>>> \o rest
             ELSE rest

\* The loop of get_busy_intervals / get_busy_intervals_for_track: the clipped
\* spans of the track's records, in row order, kept when s < e.
RECURSIVE ClippedSpans(_, _, _, _)
ClippedSpans(rs, track, window_start, window_end) ==
    IF rs = <<>> THEN <<>>
    ELSE LET r == rs[1]
             s == Max(r.Arrival, window_start)
             e == Min(r.Departure, window_end)
             rest == ClippedSpans(Tail(rs), track, window_start, window_end)
         IN  IF r.Track # track THEN rest
             ELSE IF s < e THEN <<<<s, e>>>> \o rest
             ELSE rest

\* app.py
get_busy_intervals(rs, track, window_start, window_end) ==
    app_merge_intervals(ClippedSpans(rs, track, window_start, window_end)).ret

\* shunting_slot_model.py
get_busy_intervals_for_track(df, track, window_start, window_end) ==
    merge_intervals(ClippedSpans(df, track, window_start, window_end)).ret

\* FreeSweep with the gap tests written cursor <= s and cursor <= window_end.
RECURSIVE FreeSweepLoose(_, _, _, _)
FreeSweepLoose(bs, cursor, window_end, acc) ==
    IF bs = <<>>
    THEN IF cursor <= window_end THEN Append(acc, <<cursor, window_end>>) ELSE acc
    ELSE LET s == bs[1][1]
             e == bs[1][2]
         IN  FreeSweepLoose(Tail(bs), Max(cursor, e), window_end,
                            IF cursor <= s THEN Append(acc, <<cursor, s>>) ELSE acc)

\* FreeSweep without the final span from the cursor to window_end.
RECURSIVE FreeSweepNoTail(_, _, _, _)
FreeSweepNoTail(bs, cursor, window_end, acc) ==
    IF bs = <<>> THEN acc
    ELSE LET s == bs[1][1]
             e == bs[1][2]
         IN  FreeSweepNoTail(Tail(bs), Max(cursor, e), window_end,
                             IF cursor < s THEN Append(acc, <<cursor, s>>) ELSE acc)

\* FreeSweep that never advances the cursor past a busy span.
RECURSIVE FreeSweepStuck(_, _, _, _)
FreeSweepStuck(bs, cursor, window_end, acc) ==
    IF bs = <<>>
    THEN IF cursor < window_end THEN Append(acc, <<cursor, window_end>>) ELSE acc
    ELSE LET s == bs[1][1]
         IN  FreeSweepStuck(Tail(bs), cursor, window_end,
                            IF cursor < s THEN Append(acc, <<cursor, s>>) ELSE acc)

\* The cursor sweep shared by get_free_intervals and
\* get_free_intervals_for_track; `acc` is the list `free` built so far.
RECURSIVE FreeSweep(_, _, _, _)
FreeSweep(bs, cursor, window_end, acc) ==
    IF bs = <<>>
    THEN IF cursor < window_end THEN Append(acc, <<cursor, window_end>>) ELSE acc
    ELSE LET s == bs[1][1]
             e == bs[1][2]
         IN  FreeSweep(Tail(bs), Max(cursor, e), window_end,
                       IF cursor < s THEN Append(acc, <<cursor, s>>) ELSE acc)

\* app.py
get_free_intervals(bs, window_start, window_end) ==
    FreeSweep(bs, window_start, window_end, <<>>)

\* shunting_slot_model.py
get_free_intervals_for_track(df, track, window_start, window_end) ==
    FreeSweep(get_busy_intervals_for_track(df, track, window_start, window_end),
              window_start, window_end, <<>>)

---------------------------------------------------------------------------
(* Slot finder *)

\* find_first_free_slot with the length test written > instead of >=.
RECURSIVE find_first_free_slot_gt(_, _)
find_first_free_slot_gt(free_intervals, required_minutes) ==
    IF free_intervals = <<>> THEN None
    ELSE LET s == free_intervals[1][1]
             e == free_intervals[1][2]
         IN  IF e - s > required_minutes
             THEN <<s, s + required_minutes>>
             ELSE find_first_free_slot_gt(Tail(free_intervals), required_minutes)

RECURSIVE find_first_free_slot(_, _)
find_first_free_slot(free_intervals, required_minutes) ==
    IF free_intervals = <<>> THEN None
    ELSE LET s == free_intervals[1][1]
             e == free_intervals[1][2]
         IN  IF e - s >= required_minutes
             THEN <<s, s + required_minutes>>
             ELSE find_first_free_slot(Tail(free_intervals), required_minutes)

---------------------------------------------------------------------------
(* Direct calls on a caller-owned interval list *)

NoArgs == [track |-> "", ws |-> 0, we |-> 0, d |-> 0]
NoSess == [c \in Callers |-> [pc |-> "idle", track |-> "", slot |-> None, stale |-> FALSE]]

Windows == {w \in Intervals : w[1] < w[2]}
Durations == 1..MaxD

InitIntervals ==
    /\ intervals \in BSeq(ValidIntervals, MaxLen)
    /\ before = intervals
    /\ rows = <<>>
    /\ op = "none"
    /\ args = NoArgs
    /\ out = <<>> /\ busy = <<>> /\ free = <<>> /\ slot = None
    /\ result = <<>>
    /\ outcome = "none"
    /\ sess = NoSess
    /\ late = {}

\* shunting_slot_model.merge_intervals(intervals)
CallMerge ==
    /\ op = "none"
    /\ op' = "merge_intervals"
    /\ out' = merge_intervals(intervals).ret
    /\ intervals' = merge_intervals(intervals).arg
    /\ outcome' = "returned"
    /\ UNCHANGED <<rows, before, args, busy, free, slot, result, sess, late>>

\* app.merge_intervals(intervals)
CallAppMerge ==
    /\ op = "none"
    /\ op' = "app_merge_intervals"
    /\ out' = app_merge_intervals(intervals).ret
    /\ intervals' = app_merge_intervals(intervals).arg
    /\ outcome' = "returned"
    /\ UNCHANGED <<rows, before, args, busy, free, slot, result, sess, late>>

\* app.get_free_intervals(intervals, ws, we)
CallFree(w) ==
    /\ op = "none"
    /\ op' = "get_free_intervals"
    /\ args' = [NoArgs EXCEPT !.ws = w[1], !.we = w[2]]
    /\ free' = get_free_intervals(intervals, w[1], w[2])
    /\ outcome' = "returned"
    /\ UNCHANGED <<rows, intervals, before, out, busy, slot, result, sess, late>>

\* app.find_first_free_slot(intervals, d)
CallFirstFit(d) ==
    /\ op = "none"
    /\ op' = "find_first_free_slot"
    /\ args' = [NoArgs EXCEPT !.d = d]
    /\ slot' = find_first_free_slot(intervals, d)
    /\ outcome' = "returned"
    /\ UNCHANGED <<rows, intervals, before, out, busy, free, result, sess, late>>

NextIntervals ==
    \/ CallMerge
    \/ CallAppMerge
    \/ \E w \in Windows : CallFree(w)
    \/ \E d \in (-1)..MaxD : CallFirstFit(d)

SpecIntervals == InitIntervals /\ [][NextIntervals]_vars

---------------------------------------------------------------------------
(* Queries over the record store *)

AllWindows == Intervals     \* any two instants a caller may pass as a window

\* sorted({r["Track"] for r in rows}) / sorted(df["Track"].unique())
TrackOrder == <<"A", "B">>
TracksOf(rs) == {rs[i].Track : i \in 1..Len(rs)}
IsPresent(rs, t) == t \in TracksOf(rs)
SortedTracks(rs) == SelectSeq(TrackOrder, LAMBDA t : IsPresent(rs, t))

RECURSIVE SlotsPerTrack(_, _, _, _)
SlotsPerTrack(df, tracks, ws, we) ==
    IF tracks = <<>> THEN <<>>
    ELSE <<[track |-> tracks[1],
            busy |-> get_busy_intervals_for_track(df, tracks[1], ws, we),
            free |-> get_free_intervals_for_track(df, tracks[1], ws, we)]>>
         \o SlotsPerTrack(df, Tail(tracks), ws, we)

\* compute_slots_for_all_tracks with the window test written ws > we.
compute_slots_for_all_tracks_gt(df, ws, we) ==
    IF ws > we THEN [raised |-> TRUE, result |-> <<>>]
    ELSE [raised |-> FALSE, result |-> SlotsPerTrack(df, SortedTracks(df), ws, we)]

\* shunting_slot_model.py: [raised: whether ValueError was raised, result]
compute_slots_for_all_tracks(df, ws, we) ==
    IF ws >= we THEN [raised |-> TRUE, result |-> <<>>]
    ELSE [raised |-> FALSE, result |-> SlotsPerTrack(df, SortedTracks(df), ws, we)]

\* The store holds up to MaxRows well-formed rows in any order, or a single
\* row of any shape (arrival at or after departure included).
InitQuery ==
    /\ rows \in BSeq(Records, MaxRows) \cup {<<r>> : r \in RawRecords}
    /\ intervals = <<>>
    /\ before = <<>>
    /\ op = "none"
    /\ args = NoArgs
    /\ out = <<>> /\ busy = <<>> /\ free = <<>> /\ slot = None
    /\ result = <<>>
    /\ outcome = "none"
    /\ sess = NoSess
    /\ late = {}

\* app.get_busy_intervals(rows, track, ws, we)
CallBusy(track, w) ==
    /\ op = "none"
    /\ op' = "get_busy_intervals"
    /\ args' = [NoArgs EXCEPT !.track = track, !.ws = w[1], !.we = w[2]]
    /\ busy' = get_busy_intervals(rows, track, w[1], w[2])
    /\ outcome' = "returned"
    /\ UNCHANGED <<rows, intervals, before, out, free, slot, result, sess, late>>

\* shunting_slot_model.get_busy_intervals_for_track(df, track, ws, we)
CallBusyForTrack(track, w) ==
    /\ op = "none"
    /\ op' = "get_busy_intervals_for_track"
    /\ args' = [NoArgs EXCEPT !.track = track, !.ws = w[1], !.we = w[2]]
    /\ busy' = get_busy_intervals_for_track(rows, track, w[1], w[2])
    /\ outcome' = "returned"
    /\ UNCHANGED <<rows, intervals, before, out, free, slot, result, sess, late>>

\* shunting_slot_model.get_free_intervals_for_track(df, track, ws, we)
CallFreeForTrack(track, w) ==
    /\ op = "none"
    /\ op' = "get_free_intervals_for_track"
    /\ args' = [NoArgs EXCEPT !.track = track, !.ws = w[1], !.we = w[2]]
    /\ free' = get_free_intervals_for_track(rows, track, w[1], w[2])
    /\ outcome' = "returned"
    /\ UNCHANGED <<rows, intervals, before, out, busy, slot, result, sess, late>>

\* shunting_slot_model.compute_slots_for_all_tracks(window_start, window_end)
ComputeAll(w) ==
    /\ op = "none"
    /\ op' = "compute_slots_for_all_tracks"
    /\ args' = [NoArgs EXCEPT !.ws = w[1], !.we = w[2]]
    /\ LET r == compute_slots_for_all_tracks(rows, w[1], w[2])
       IN  /\ result' = r.result
           /\ outcome' = IF r.raised THEN "rejected" ELSE "returned"
    /\ UNCHANGED <<rows, intervals, before, out, busy, free, slot, sess, late>>

\* app.py "Compute Slots" button, with Reserve Slot not pressed: the selectbox
\* offers the tracks present in rows, the number_input durations from 1 up.
ComputeSlots(track, w, d) ==
    /\ op = "none"
    /\ IsPresent(rows, track)
    /\ op' = "Compute Slots"
    /\ args' = [track |-> track, ws |-> w[1], we |-> w[2],
                d |-> IF w[1] >= w[2] THEN 0 ELSE d]  \* d: what the slot finder was handed
    /\ IF w[1] >= w[2]
       THEN /\ outcome' = "rejected"
            /\ UNCHANGED <<busy, free, slot>>
       ELSE /\ outcome' = "returned"
            /\ busy' = get_busy_intervals(rows, track, w[1], w[2])
            /\ free' = get_free_intervals(busy', w[1], w[2])
            /\ slot' = find_first_free_slot(free', d)
    /\ UNCHANGED <<rows, intervals, before, out, result, sess, late>>

\* Direct calls of the two busy calculators.
NextQuery ==
    \/ \E t \in Tracks, w \in AllWindows : CallBusy(t, w)
    \/ \E t \in Tracks, w \in AllWindows : CallBusyForTrack(t, w)

SpecQuery == InitQuery /\ [][NextQuery]_vars

\* The two surfaces that take a window from outside, and a direct call of the
\* free calculator beside them.
NextEntry ==
    \/ \E w \in AllWindows : ComputeAll(w)
    \/ \E t \in Tracks, w \in AllWindows, d \in Durations : ComputeSlots(t, w, d)
    \/ \E t \in Tracks, w \in AllWindows : CallFreeForTrack(t, w)

SpecEntry == InitQuery /\ [][NextEntry]_vars

---------------------------------------------------------------------------
(* Reservations: the Compute Slots / Reserve Slot handler of app.py run by
   several callers against one record store, the setting in which a slot
   can go stale.  Compute Slots shows a slot; Reserve Slot, pressed
   afterwards, appends it; the two steps of different callers interleave
   freely.  `stale` and `late` record whether another append to the same
   track fell between a caller's two steps. *)

Idle == [pc |-> "idle", track |-> "", slot |-> None, stale |-> FALSE]

InitReserve ==
    /\ rows \in {<<>>} \cup {<<r>> : r \in Records}  \* nothing or one record loaded
    /\ intervals = <<>>
    /\ before = <<>>
    /\ op = "none"
    /\ args = NoArgs
    /\ out = <<>> /\ busy = <<>> /\ free = <<>> /\ slot = None
    /\ result = <<>>
    /\ outcome = "none"
    /\ sess = NoSess
    /\ late = {}

Reservations(rs) == {i \in 1..Len(rs) : rs[i].TrainID[1] = "RESV"}

\* app.py lines 137-166: caller c presses Compute Slots.
Compute(c, track, w, d) ==
    /\ IsPresent(rows, track)
    /\ LET b == get_busy_intervals(rows, track, w[1], w[2])
           f == get_free_intervals(b, w[1], w[2])
           found == find_first_free_slot(f, d)
       IN  sess' = [sess EXCEPT ![c] =
                       IF w[1] >= w[2] \/ found = None THEN Idle
                       ELSE [pc |-> "offered", track |-> track, slot |-> found,
                             stale |-> FALSE]]
    /\ UNCHANGED <<rows, intervals, before, op, args, out, busy, free, slot,
                   result, outcome, late>>

\* app.py lines 167-170: caller c presses Reserve Slot on the slot shown.
Reserve(c) ==
    /\ sess[c].pc = "offered"
    /\ Cardinality(Reservations(rows)) < MaxResv
    /\ rows' = Append(rows, [TrainID |-> <<"RESV", Len(rows) + 1>>,
                             Track |-> sess[c].track,
                             Arrival |-> sess[c].slot[1],
                             Departure |-> sess[c].slot[2]])
    /\ late' = IF sess[c].stale THEN late \cup {Len(rows) + 1} ELSE late
    /\ sess' = [k \in Callers |->
                   IF k = c THEN Idle
                   ELSE IF sess[k].pc = "offered" /\ sess[k].track = sess[c].track
                        THEN [sess[k] EXCEPT !.stale = TRUE]
                        ELSE sess[k]]
    /\ UNCHANGED <<intervals, before, op, args, out, busy, free, slot, result, outcome>>

NextReserve ==
    \/ \E c \in Callers, t \in Tracks, w \in AllWindows, d \in Durations : Compute(c, t, w, d)
    \/ \E c \in Callers : Reserve(c)

SpecReserve == InitReserve /\ [][NextReserve]_vars

---------------------------------------------------------------------------
(* Properties of the direct calls (SpecIntervals) *)

Range(s) == {s[i] : i \in 1..Len(s)}

\* instant t lies in some span of xs
PointIn(xs, t) == \E i \in 1..Len(xs) : xs[i][1] <= t /\ t <= xs[i][2]
\* the unit stretch [k, k+1] lies in some span of xs; spans have integer
\* endpoints, so a stretch is inside one span or meets the union in endpoints only
StretchIn(xs, k) == \E i \in 1..Len(xs) : xs[i][1] <= k /\ k + 1 <= xs[i][2]

SortedByStart(xs) == \A i \in 1..(Len(xs) - 1) : xs[i][1] <= xs[i + 1][1]
StrictlyApart(xs) == \A i \in 1..(Len(xs) - 1) : xs[i][2] < xs[i + 1][1]
Disjoint(xs) == \A i \in 1..(Len(xs) - 1) : xs[i][2] <= xs[i + 1][1]
AllPositive(xs) == \A i \in 1..Len(xs) : xs[i][1] < xs[i][2]

IsMerge == op \in {"merge_intervals", "app_merge_intervals"}

\* C2: merge returns spans sorted ascending by start, consecutive spans
\* strictly apart (out[i].end < out[i+1].start, so touching inputs are
\* coalesced), covering exactly the instants the input intervals cover.
C2_MergeSortedApartSameUnion ==
    IsMerge =>
        /\ SortedByStart(out)
        /\ StrictlyApart(out)
        /\ \A t \in Instants : PointIn(out, t) <=> PointIn(before, t)
        /\ \A k \in 0..(MaxT - 1) : StretchIn(out, k) <=> StretchIn(before, k)

\* C2 witness: unordered touching intervals (1,2),(0,1) came back as (0,2).
C2_Witness ==
    /\ IsMerge
    /\ before = <<<<1, 2>>, <<0, 1>>>>
    /\ out = <<<<0, 2>>>>

\* C3: on sorted, disjoint free intervals and a positive duration d, the slot
\* is (s, s+d) for the lowest-index interval of length >= d, no span of
\* length d inside any free interval starts before s, and the answer is None
\* exactly when no interval is long enough.
C3_FirstFit ==
    (/\ op = "find_first_free_slot"
     /\ args.d > 0
     /\ SortedByStart(intervals) /\ Disjoint(intervals)
     /\ \A i \in 1..Len(intervals) : intervals[i][1] <= intervals[i][2])
    => LET fits == {i \in 1..Len(intervals) : intervals[i][2] - intervals[i][1] >= args.d}
       IN  IF fits = {} THEN slot = None
           ELSE LET i0 == CHOOSE i \in fits : \A j \in fits : i <= j
                IN  /\ slot = <<intervals[i0][1], intervals[i0][1] + args.d>>
                    /\ \A j \in 1..Len(intervals), t \in Instants :
                          (intervals[j][1] <= t /\ t + args.d <= intervals[j][2])
                              => slot[1] <= t

\* C3 witness: the too-short first span (0,1) was skipped for duration 2.
C3_Witness ==
    /\ op = "find_first_free_slot"
    /\ args.d = 2
    /\ intervals = <<<<0, 1>>, <<1, 3>>>>
    /\ slot = <<1, 3>>

\* C5 (as claimed): a slot search with a zero or negative duration is
\* rejected; it returns neither a slot nor None.
C5_NonPositiveDurationRejected ==
    (op = "find_first_free_slot" /\ args.d <= 0) => outcome = "rejected"

\* C7 (as claimed): no span returned by merge or by free has start = end.
C7_NoZeroLengthOutput ==
    /\ IsMerge => AllPositive(out)
    /\ op = "get_free_intervals" => AllPositive(free)

\* C7 (amended): every span free returns has start < end; every span merge
\* returns has start <= end, and merge returns the zero-length span (t,t)
\* exactly when (t,t) is an input and no other input interval contains t.
C7_ZeroLengthOnlyIsolated ==
    /\ op = "get_free_intervals" => AllPositive(free)
    /\ IsMerge =>
          /\ \A i \in 1..Len(out) : out[i][1] <= out[i][2]
          /\ \A t \in Instants :
                <<t, t>> \in Range(out)
                    <=> /\ <<t, t>> \in Range(before)
                        /\ \A iv \in Range(before) :
                              (iv[1] <= t /\ t <= iv[2]) => iv = <<t, t>>

\* C7 witness: merge handed back an isolated zero-length interval, and free
\* was asked about a busy list holding one.
C7_Witness ==
    \/ IsMerge /\ before = <<<<2, 3>>, <<1, 1>>>> /\ out = <<<<1, 1>>, <<2, 3>>>>
    \/ /\ op = "get_free_intervals" /\ intervals = <<<<1, 1>>>>
       /\ args.ws = 0 /\ args.we = 2 /\ free = <<<<0, 1>>, <<1, 2>>>>

\* C8: merging a merged list changes nothing; merge([]) is [] and a single
\* interval comes back unchanged.
C8_MergeIdempotent ==
    IsMerge =>
        /\ merge_intervals(out).ret = out
        /\ app_merge_intervals(out).ret = out
        /\ before = <<>> => out = <<>>
        /\ Len(before) = 1 => out = before

\* C8 witness: three intervals collapsed to one span, which merges to itself.
C8_Witness ==
    /\ IsMerge
    /\ before = <<<<0, 3>>, <<1, 2>>, <<3, 3>>>>
    /\ out = <<<<0, 3>>>>

\* C9 (as claimed): after any direct call the caller's interval list holds
\* the same intervals in the same order as before the call.
C9_CallerListUnchanged ==
    op # "none" => intervals = before

---------------------------------------------------------------------------
(* Properties of the queries over the record store (SpecQuery, SpecEntry) *)

Within(xs, ws, we) == \A i \in 1..Len(xs) : ws <= xs[i][1] /\ xs[i][2] <= we

\* busy spans b and free spans f tile the window [ws, we]
Covers(b, f, ws, we) ==
    /\ Within(b, ws, we) /\ Within(f, ws, we)
    /\ SortedByStart(b) /\ Disjoint(b)
    /\ SortedByStart(f) /\ Disjoint(f)
    /\ \A t \in ws..we : PointIn(b, t) \/ PointIn(f, t)
    /\ \A k \in ws..(we - 1) :
          /\ StretchIn(b, k) \/ StretchIn(f, k)
          /\ ~(StretchIn(b, k) /\ StretchIn(f, k))

\* C1: for a window with start < end the busy and free spans of a track
\* cover the window exactly: every instant is in one of them, no busy span
\* overlaps a free span, none leaves the window, both lists are sorted and
\* pairwise disjoint.
C1_BusyFreeCoverWindow ==
    (outcome = "returned" /\ args.ws < args.we) =>
        /\ op = "Compute Slots" => Covers(busy, free, args.ws, args.we)
        /\ op = "compute_slots_for_all_tracks" =>
              \A i \in 1..Len(result) :
                  Covers(result[i].busy, result[i].free, args.ws, args.we)
        /\ op = "get_free_intervals_for_track" =>
              Covers(get_busy_intervals_for_track(rows, args.track, args.ws, args.we),
                     free, args.ws, args.we)

\* C1 witness: one record in the middle of the window, free on both sides.
C1_Witness ==
    /\ op = "Compute Slots" /\ outcome = "returned"
    /\ args.ws = 0 /\ args.we = 3
    /\ busy = <<<<1, 2>>>>
    /\ free = <<<<0, 1>>, <<2, 3>>>>

\* the clipped span of record r in the window
Clip(r, ws, we) == <<Max(r.Arrival, ws), Min(r.Departure, we)>>

\* C4: busy is the merge of the clipped spans of exactly the records on the
\* queried track whose clipped start is before the clipped end; other tracks
\* and records outside the window add nothing, every span lies in the
\* window, and a track no record names has no busy span.
C4_BusyIsMergeOfClipped ==
    op \in {"get_busy_intervals", "get_busy_intervals_for_track"} =>
        LET ws == args.ws
            we == args.we
            Kept(r) == r.Track = args.track /\ Clip(r, ws, we)[1] < Clip(r, ws, we)[2]
            kept == SelectSeq(rows, Kept)
            spans == [i \in 1..Len(kept) |-> Clip(kept[i], ws, we)]
        IN  /\ busy = merge_intervals(spans).ret
            /\ Within(busy, ws, we)
            /\ \A k \in 0..(MaxT - 1) :
                  StretchIn(busy, k) <=>
                      /\ ws <= k /\ k + 1 <= we
                      /\ \E i \in 1..Len(rows) :
                            /\ rows[i].Track = args.track
                            /\ rows[i].Arrival <= k /\ k + 1 <= rows[i].Departure
            /\ args.track \notin TracksOf(rows) => busy = <<>>

\* C4 witness: a record straddling the window start is clipped to it, a
\* record ending at the window start and a record of another track add nothing.
C4_Witness ==
    /\ op \in {"get_busy_intervals", "get_busy_intervals_for_track"}
    /\ args.track = "A" /\ args.ws = 1 /\ args.we = 3
    /\ Len(rows) = 2
    /\ rows[1].Track = "A" /\ rows[1].Arrival = 0 /\ rows[1].Departure = 2
    /\ \/ rows[2].Track = "B"
       \/ rows[2].Track = "A" /\ rows[2].Departure <= 1
    /\ busy = <<<<1, 2>>>>

---------------------------------------------------------------------------
(* Properties of reservations (SpecReserve) *)

Overlap(r, q) == Max(r.Arrival, q.Arrival) < Min(r.Departure, q.Departure)

====
